---------------------------- MODULE Spec2Model ----------------------------
(***************************************************************************)
(* rollout: a rolling logfile appender (src/src/main.rs).                  *)
(*                                                                         *)
(* Strings (file names, command-line arguments) are sequences of           *)
(* one-character strings, and file contents are sequences of byte values.  *)
(* u32 and u64 values are little-endian sequences of 16-bit limbs (2 limbs *)
(* for u32, 4 for u64), so that parsing, incrementing and multiplying keep *)
(* the exact width of the Rust integer types.                              *)
(***************************************************************************)
EXTENDS Integers, Sequences, FiniteSets, TLC

(***************************************************************************)
(* Bounds of the model.                                                    *)
(***************************************************************************)
\* capacity of the read buffer in the model (the program reads into [0; 1024])
BufSize == 2
\* total number of input bytes delivered on stdin
MaxInput == 3
\* total number of transient (Interrupted / WouldBlock) errors in a run
MaxTransient == 1
\* the larger of the two rotation thresholds (args.size_bytes) drawn for a run;
\* the other is 1
MaxThreshold == 2
\* largest retention count (args.to_keep) drawn for a run
MaxKeep == 1
\* largest number of entries of a start-up directory listing in ScanSpec
MaxEntries == 2

(***************************************************************************)
(* Bytes.                                                                  *)
(***************************************************************************)
\* b'\n'
NL == 10
\* the bytes stdin delivers: the newline and one other byte
InputBytes == {NL, 97}

(***************************************************************************)
(* Option<T>: None is the empty set, Some(v) is {v}.                       *)
(***************************************************************************)
None == {}
Some(v) == {v}
Unwrap(o) == CHOOSE v \in o : TRUE

(***************************************************************************)
(* Fixed-width unsigned integers as little-endian sequences of limbs.      *)
(***************************************************************************)
LimbBase == 256 * 256
U32Limbs == 2
U64Limbs == 4

Zero(n) == [i \in 1..n |-> 0]

\* x * m + a over the limbs of x: the wrapped value and the carry out of the top limb
MulAdd(x, m, a) ==
  LET RECURSIVE Go(_, _, _)
      Go(i, carry, acc) ==
        IF i > Len(x) THEN [val |-> acc, carry |-> carry]
        ELSE LET t == x[i] * m + carry
             IN  Go(i + 1, t \div LimbBase, Append(acc, t % LimbBase))
  IN  Go(1, a, <<>>)

Lt(a, b) ==
  \E i \in 1..Len(a) : a[i] < b[i] /\ \A j \in (i + 1)..Len(a) : a[j] = b[j]

Leq(a, b) == a = b \/ Lt(a, b)

\* the limbs of a small natural number
FromNat(k, n) == MulAdd(Zero(n), 1, k).val

MaxValue(n) == [i \in 1..n |-> LimbBase - 1]

Digits == <<"0", "1", "2", "3", "4", "5", "6", "7", "8", "9">>
IsDigit(c) == \E d \in 1..10 : Digits[d] = c
DigitVal(c) == (CHOOSE d \in 1..10 : Digits[d] = c) - 1

\* quotient and remainder of x by 10
DivMod10(x) ==
  LET RECURSIVE Go(_, _, _)
      Go(i, rem, acc) ==
        IF i = 0 THEN [quot |-> acc, rem |-> rem]
        ELSE LET cur == rem * LimbBase + x[i]
             IN  Go(i - 1, cur % 10, [acc EXCEPT ![i] = cur \div 10])
  IN  Go(Len(x), 0, x)

\* Display for an unsigned integer: decimal digits, no padding, no sign
RECURSIVE ToDecimal(_)
ToDecimal(x) ==
  LET dm == DivMod10(x)
  IN  IF dm.quot = Zero(Len(x)) THEN <<Digits[dm.rem + 1]>>
      ELSE Append(ToDecimal(dm.quot), Digits[dm.rem + 1])

\* str::parse for an unsigned integer of n limbs (core::num from_str_radix, radix 10):
\* the empty string, a lone sign, a non-digit and an overflow are errors; one
\* leading '+' is accepted
ParseUnsigned(s, n) ==
  LET RECURSIVE Go(_, _)
      Go(i, acc) ==
        IF i > Len(s) THEN Some(acc)
        ELSE IF ~IsDigit(s[i]) THEN None
        ELSE LET r == MulAdd(acc, 10, DigitVal(s[i]))
             IN  IF r.carry > 0 THEN None ELSE Go(i + 1, r.val)
  IN  IF s = <<>> THEN None
      ELSE IF Len(s) = 1 /\ s[1] \in {"+", "-"} THEN None
      ELSE IF s[1] = "+" THEN Go(2, Zero(n))
      ELSE Go(1, Zero(n))


(***************************************************************************)
(* File names.                                                             *)
(***************************************************************************)
Current == <<"c", "u", "r", "r", "e", "n", "t">>
DotLog == <<".", "l", "o", "g">>

starts_with(f, prefix) ==
  Len(prefix) <= Len(f) /\ SubSeq(f, 1, Len(prefix)) = prefix

\* Path::extension of a bare file name: the part after the last dot, unless
\* there is no dot, the only dot is the first character, or the name is ".."
extension(f) ==
  LET dots == {i \in 1..Len(f) : f[i] = "."}
      last == CHOOSE i \in dots : \A j \in dots : j <= i
  IN  IF dots = {} \/ f = <<".", ".">> THEN None
      ELSE IF last = 1 THEN None
      ELSE Some(SubSeq(f, last + 1, Len(f)))

\* whether the slice p[prefix.len()..p.len() - 4] of log_index panics
\* (slice index starts after it ends)
log_index_panics(f, prefix) ==
  /\ starts_with(f, prefix)
  /\ extension(f) = Some(<<"l", "o", "g">>)
  /\ Len(prefix) > Len(f) - 4

\* log_index(de, prefix), for the entries on which it does not panic
log_index(f, prefix) ==
  IF starts_with(f, prefix) /\ extension(f) = Some(<<"l", "o", "g">>)
  THEN ParseUnsigned(SubSeq(f, Len(prefix) + 1, Len(f) - 4), U32Limbs)
  ELSE None

\* LogManager::filename
filename(prefix, index) == prefix \o ToDecimal(index) \o DotLog

\* the indices of the entries of a listing, sorted ascending (sort_unstable);
\* two entries with the same index give the index twice
RECURSIVE SortedIndices(_, _)
SortedIndices(names, prefix) ==
  LET matching == {f \in names : log_index(f, prefix) # None}
      idx(f) == Unwrap(log_index(f, prefix))
      least == CHOOSE f \in matching : \A g \in matching : Leq(idx(f), idx(g))
  IN  IF matching = {} THEN <<>>
      ELSE <<idx(least)>> \o SortedIndices(matching \ {least}, prefix)

(***************************************************************************)
(* State of a process.                                                     *)
(***************************************************************************)
VARIABLES
  pc,            \* the statement of main / run / rotate the process is at
  exit_status,   \* "running", "exit(0)", "exit(1)" or "panic"
  argv,          \* the command line (after the program name)
  parsed,        \* the result of parse_args
  dir_created,   \* history: parse_args created (or found) the target directory
  args,          \* the Args that run consumes
  files,         \* the target directory: file name -> content
  files0,        \* history: the target directory when the process started
  log_indices,   \* LogManager::log_indices
  file_size,     \* run: file_size
  buf,           \* run: buf
  sz,            \* run: sz
  split,         \* run: b + 1 when the buffer is split, else 0
  ret,           \* the call site rotate returns to: "start" or "split"
  input,         \* history: every byte read from stdin so far
  rotated,       \* history: one record per successful rename of `current`
  assigned,      \* history: every index next_index returned
  removed,       \* history: the names remove_file deleted
  remove_failed, \* history: a remove_file of an existing file failed
  retries,       \* history: number of transient errors so far
  io_fatal,      \* history: the I/O step at which a fatal error occurred, or "none"
  eof            \* history: a read returned 0

vars == <<pc, exit_status, argv, parsed, dir_created, args, files, files0, log_indices, file_size, buf,
          sz, split, ret, input, rotated, assigned, removed, remove_failed,
          retries, io_fatal, eof>>

\* what no step of run and rotate changes, and the history a plain step keeps
cli == <<argv, parsed, dir_created, args, files0>>
hist == <<input, rotated, assigned, removed, remove_failed, eof>>

(***************************************************************************)
(* Start-up directories and configurations of a run.                       *)
(***************************************************************************)
PrefixA == <<"a", ".">>
Name(mid) == PrefixA \o mid \o DotLog
MaxU32Digits == <<"4", "2", "9", "4", "9", "6", "7", "2", "9", "5">>

EmptyDir == <<>>
InitDirs ==
  { EmptyDir,
    Current :> <<97>>,
    (Name(<<"1">>) :> <<98>>) @@ (Name(<<"3">>) :> <<98, NL>>) @@ (Current :> <<>>),
    (Name(<<"0", "1">>) :> <<98>>) @@ (Name(<<"1">>) :> <<98, NL>>),
    PrefixA \o <<"l", "o", "g">> :> <<98>>,
    Name(MaxU32Digits) :> <<98, NL>> }

InitArgs ==
  [prefix : {PrefixA}, to_keep : 0..MaxKeep, rotate : BOOLEAN,
   size_bytes : {1, MaxThreshold}]

NoArgs == [prefix |-> <<>>, to_keep |-> 0, rotate |-> FALSE, size_bytes |-> 0]

Init ==
  /\ pc = "set_current_dir"
  /\ exit_status = "running"
  /\ argv = <<>>
  /\ parsed = None
  /\ dir_created = TRUE
  /\ args \in InitArgs
  /\ files \in InitDirs
  /\ files0 = files
  /\ log_indices = <<>>
  /\ file_size = 0
  /\ buf = [i \in 1..BufSize |-> 0]
  /\ sz = 0
  /\ split = 0
  /\ ret = "start"
  /\ input = <<>>
  /\ rotated = <<>>
  /\ assigned = <<>>
  /\ removed = {}
  /\ remove_failed = FALSE
  /\ retries = 0
  /\ io_fatal = "none"
  /\ eof = FALSE

(***************************************************************************)
(* Process exit.                                                           *)
(***************************************************************************)
\* exit(1) after an unrecoverable error of the I/O step the process is at
Exit1 ==
  /\ exit_status' = "exit(1)"
  /\ io_fatal' = pc
  /\ pc' = "done"

\* a panic (unwrap of an Err, slice out of order, overflow check)
Panic ==
  /\ exit_status' = "panic"
  /\ pc' = "done"
  /\ UNCHANGED io_fatal

(***************************************************************************)
(* run: start-up.                                                          *)
(***************************************************************************)
\* std::env::set_current_dir(args.dir) succeeds
SetCurrentDirOk ==
  /\ pc = "set_current_dir"
  /\ pc' = "LogManager::new"
  /\ UNCHANGED <<exit_status, cli, files, log_indices, file_size, buf, sz, split,
                 ret, hist, retries, io_fatal>>

\* std::env::set_current_dir(args.dir) fails: exit(1)
SetCurrentDirErr ==
  /\ pc = "set_current_dir"
  /\ Exit1
  /\ UNCHANGED <<cli, files, log_indices, file_size, buf, sz, split, ret, hist,
                 retries>>

\* LogManager::new(args.prefix): every entry is parsed, the indices are sorted
LogManagerNewOk ==
  /\ pc = "LogManager::new"
  /\ \A f \in DOMAIN files : ~log_index_panics(f, args.prefix)
  /\ log_indices' = SortedIndices(DOMAIN files, args.prefix)
  /\ pc' = "open_current"
  /\ UNCHANGED <<exit_status, cli, files, file_size, buf, sz, split, ret, hist,
                 retries, io_fatal>>

\* LogManager::new: log_index panics on an entry (slice start after slice end)
LogManagerNewPanic ==
  /\ pc = "LogManager::new"
  /\ \E f \in DOMAIN files : log_index_panics(f, args.prefix)
  /\ Panic
  /\ UNCHANGED <<cli, files, log_indices, file_size, buf, sz, split, ret, hist,
                 retries>>

\* LogManager::new: read_dir(".") fails, new returns Err and run unwraps it
LogManagerNewErr ==
  /\ pc = "LogManager::new"
  /\ exit_status' = "panic"
  /\ io_fatal' = pc
  /\ pc' = "done"
  /\ UNCHANGED <<cli, files, log_indices, file_size, buf, sz, split, ret, hist,
                 retries>>

\* a start-up rotation that does not look at the size of `current`
RotateOnStartAlways(rotate, size) == rotate

\* the guard of the start-up rotation
RotateOnStart(rotate, size) == rotate /\ size > 0

\* an open of `current` that truncates it
OpenTruncate(existing) == <<>>

\* File::options().append(true).create(true).open("current"): what `current`
\* holds after the open, for what it held before (nothing if it was absent)
OpenAppend(existing) == existing

\* open_current succeeds: `current` is created if absent, its length is file_size;
\* then the start-up rotation is entered or skipped
OpenCurrentOk ==
  /\ pc = "open_current"
  /\ LET existing == IF Current \in DOMAIN files THEN files[Current] ELSE <<>>
         opened == OpenAppend(existing)
     IN  /\ files' = (Current :> opened) @@ files
         /\ file_size' = Len(opened)
         /\ IF RotateOnStart(args.rotate, Len(opened))
            THEN pc' = "flush" /\ ret' = "start"
            ELSE pc' = "read" /\ ret' = ret
  /\ UNCHANGED <<exit_status, cli, log_indices, buf, sz, split, hist, retries,
                 io_fatal>>

\* open_current fails (the open, or the metadata call after it): exit(1)
OpenCurrentErr ==
  /\ pc = "open_current"
  /\ \E created \in BOOLEAN :
       files' = IF created /\ Current \notin DOMAIN files
                THEN (Current :> <<>>) @@ files ELSE files
  /\ Exit1
  /\ UNCHANGED <<cli, log_indices, file_size, buf, sz, split, ret, hist, retries>>

(***************************************************************************)
(* resolve_io: an Interrupted or WouldBlock error runs the closure again,  *)
(* any other error is exit(1).  These two actions cover the closures that  *)
(* have no effect when they fail.                                          *)
(***************************************************************************)
PlainSteps == {"read", "flush", "reopen"}

ResolveIoRetry ==
  /\ pc \in PlainSteps
  /\ retries < MaxTransient
  /\ retries' = retries + 1
  /\ UNCHANGED <<pc, exit_status, cli, files, log_indices, file_size, buf, sz, split,
                 ret, hist, io_fatal>>

ResolveIoExit ==
  /\ pc \in PlainSteps
  /\ Exit1
  /\ UNCHANGED <<cli, files, log_indices, file_size, buf, sz, split, ret, hist,
                 retries>>

(***************************************************************************)
(* run: the main loop.                                                     *)
(***************************************************************************)
\* buf.iter().position(|b| *b == b'\n'), 1-based
position(b) ==
  LET at == {i \in 1..Len(b) : b[i] = NL}
  IN  IF at = {} THEN None ELSE Some(CHOOSE i \in at : \A j \in at : i <= j)

\* a split that leaves the newline to `second`
SplitBeforeNewline(p) == p - 1

\* the length of `first` in buf.split_at(b + 1), for the 1-based position p of b
SplitAt(p) == p

\* inp.read(&mut buf[..]) returns n > 0 bytes; the size is added and the
\* threshold test decides between the split and the plain write
ReadOk ==
  /\ pc = "read"
  /\ \E n \in 1..BufSize : \E chunk \in [1..n -> InputBytes] :
       /\ Len(input) + n <= MaxInput
       /\ LET nbuf == [i \in 1..BufSize |-> IF i <= n THEN chunk[i] ELSE buf[i]]
              nsize == file_size + n
          IN  /\ buf' = nbuf
              /\ sz' = n
              /\ file_size' = nsize
              /\ input' = input \o chunk
              /\ IF nsize >= args.size_bytes /\ position(nbuf) # None
                 THEN split' = SplitAt(Unwrap(position(nbuf))) /\ pc' = "write_first"
                 ELSE split' = 0 /\ pc' = "write_rest"
  /\ UNCHANGED <<exit_status, cli, files, log_indices, ret, rotated, assigned,
                 removed, remove_failed, eof, retries, io_fatal>>

\* inp.read returns 0: exit(0)
ReadEof ==
  /\ pc = "read"
  /\ sz' = 0
  /\ eof' = TRUE
  /\ exit_status' = "exit(0)"
  /\ pc' = "done"
  /\ UNCHANGED <<cli, files, log_indices, file_size, buf, split, ret, input,
                 rotated, assigned, removed, remove_failed, retries, io_fatal>>

\* the bytes the write_all at pc writes
first == SubSeq(buf, 1, split)
second == SubSeq(buf, split + 1, Len(buf))
WriteData ==
  CASE pc = "write_first" -> first
    [] pc = "write_second" -> second
    [] pc = "write_rest" -> SubSeq(buf, 1, sz)
    [] OTHER -> <<>>

WriteSteps == {"write_first", "write_second", "write_rest"}

Appended(data) == [files EXCEPT ![Current] = @ \o data]

\* a counter that restarts at 0 after a split
SizeRestarted(s) == 0

\* file_size = second.len() as u64
SizeAfterSplit(s) == Len(s)

\* outp.write_all(..) succeeds
WriteAllOk ==
  /\ pc \in WriteSteps
  /\ files' = Appended(WriteData)
  /\ CASE pc = "write_first" ->
            pc' = "flush" /\ ret' = "split" /\ UNCHANGED file_size
       [] pc = "write_second" ->
            pc' = "read" /\ file_size' = SizeAfterSplit(second) /\ UNCHANGED ret
       [] pc = "write_rest" ->
            pc' = "read" /\ UNCHANGED <<file_size, ret>>
  /\ UNCHANGED <<exit_status, cli, log_indices, buf, sz, split, hist, retries,
                 io_fatal>>

\* write_all fails with WouldBlock after k bytes went out; resolve_io calls
\* write_all again with the same slice
WriteAllRetry ==
  /\ pc \in WriteSteps
  /\ retries < MaxTransient
  /\ \E k \in 0..(Len(WriteData) - 1) : files' = Appended(SubSeq(WriteData, 1, k))
  /\ retries' = retries + 1
  /\ UNCHANGED <<pc, exit_status, cli, log_indices, file_size, buf, sz, split, ret,
                 hist, io_fatal>>

\* write_all fails with another error after k bytes went out: exit(1)
WriteAllExit ==
  /\ pc \in WriteSteps
  /\ \E k \in 0..(Len(WriteData) - 1) : files' = Appended(SubSeq(WriteData, 1, k))
  /\ Exit1
  /\ UNCHANGED <<cli, log_indices, file_size, buf, sz, split, ret, hist, retries>>

(***************************************************************************)
(* rotate and the LogManager.                                              *)
(***************************************************************************)
\* current.flush() succeeds; the handle is dropped
FlushOk ==
  /\ pc = "flush"
  /\ pc' = "rename"
  /\ UNCHANGED <<exit_status, cli, files, log_indices, file_size, buf, sz, split,
                 ret, hist, retries, io_fatal>>

\* LogManager::next_index: one more than the back of log_indices, or than 0;
\* `overflow` tells that i + 1 does not fit a u32, `index` is the wrapped sum
next_index(indices) ==
  LET i == IF indices = <<>> THEN Zero(U32Limbs) ELSE indices[Len(indices)]
      r == MulAdd(i, 1, 1)
  IN  [index |-> r.val, overflow |-> r.carry > 0]

\* the effect of a successful rename("current", target): target is replaced
Renamed(target) ==
  [f \in (DOMAIN files \ {Current}) \cup {target} |->
     IF f = target THEN files[Current] ELSE files[f]]

\* the closure of the rename step runs to the end: next_logfile() pushes the
\* next index (wrapped when the build does not check overflow) and the rename
\* succeeds
RenameOk ==
  /\ pc = "rename"
  /\ LET ni == next_index(log_indices)
         target == filename(args.prefix, ni.index)
     IN  /\ log_indices' = Append(log_indices, ni.index)
         /\ assigned' = Append(assigned, ni.index)
         /\ rotated' = Append(rotated,
                         [index |-> ni.index, content |-> files[Current],
                          on_start |-> (ret = "start"),
                          replaced |-> (target \in DOMAIN files)])
         /\ files' = Renamed(target)
  /\ pc' = "cleanup_old"
  /\ UNCHANGED <<exit_status, cli, file_size, buf, sz, split, ret, input, removed,
                 remove_failed, eof, retries, io_fatal>>

\* next_index overflows in a build with overflow checks: panic
RenamePanic ==
  /\ pc = "rename"
  /\ next_index(log_indices).overflow
  /\ Panic
  /\ UNCHANGED <<cli, files, log_indices, file_size, buf, sz, split, ret, hist,
                 retries>>

\* the rename fails with Interrupted or WouldBlock: resolve_io runs the closure
\* again, and the index next_logfile() pushed stays in log_indices
RenameRetry ==
  /\ pc = "rename"
  /\ retries < MaxTransient
  /\ LET ni == next_index(log_indices)
     IN  /\ log_indices' = Append(log_indices, ni.index)
         /\ assigned' = Append(assigned, ni.index)
  /\ retries' = retries + 1
  /\ UNCHANGED <<pc, exit_status, cli, files, file_size, buf, sz, split, ret, input,
                 rotated, removed, remove_failed, eof, io_fatal>>

\* the rename fails with another error: exit(1)
RenameExit ==
  /\ pc = "rename"
  /\ LET ni == next_index(log_indices)
     IN  /\ log_indices' = Append(log_indices, ni.index)
         /\ assigned' = Append(assigned, ni.index)
  /\ Exit1
  /\ UNCHANGED <<cli, files, file_size, buf, sz, split, ret, input, rotated,
                 removed, remove_failed, eof, retries>>

\* the number of indices cleanup_old(to_keep) pops from the front
Excess(indices, to_keep) ==
  IF Len(indices) > to_keep THEN Len(indices) - to_keep ELSE 0

\* a cleanup_old that ends the process when a removal fails
RemoveErrIsFatal(failed) == failed # {}

\* `let _ = std::fs::remove_file(..)`: whether the removals that failed end
\* the process
RemoveErrEscalates(failed) == FALSE

\* lm.cleanup_old(to_keep): the front indices are popped and the file of each
\* is removed; a removal that fails (the file is absent, or the call fails on
\* an existing file) is ignored
CleanupOld ==
  /\ pc = "cleanup_old"
  /\ LET k == Excess(log_indices, args.to_keep)
         popped == {filename(args.prefix, log_indices[j]) : j \in 1..k}
         existing == popped \cap DOMAIN files
     IN  /\ log_indices' = SubSeq(log_indices, k + 1, Len(log_indices))
         /\ \E failed \in SUBSET existing :
              /\ files' = [f \in DOMAIN files \ (existing \ failed) |-> files[f]]
              /\ removed' = removed \cup (existing \ failed)
              /\ remove_failed' = (remove_failed \/ failed # {})
              /\ IF RemoveErrEscalates(failed)
                 THEN Exit1
                 ELSE pc' = "reopen" /\ UNCHANGED <<exit_status, io_fatal>>
  /\ UNCHANGED <<cli, file_size, buf, sz, split, ret, input, rotated, assigned, eof,
                 retries>>

\* `current` is opened with write, truncate, create; rotate returns to its caller
ReopenOk ==
  /\ pc = "reopen"
  /\ files' = (Current :> <<>>) @@ files
  /\ IF ret = "start"
     THEN pc' = "read" /\ file_size' = 0
     ELSE pc' = "write_second" /\ UNCHANGED file_size
  /\ UNCHANGED <<exit_status, cli, log_indices, buf, sz, split, ret, hist, retries,
                 io_fatal>>

Next ==
  \/ SetCurrentDirOk \/ SetCurrentDirErr
  \/ LogManagerNewOk \/ LogManagerNewPanic \/ LogManagerNewErr
  \/ OpenCurrentOk \/ OpenCurrentErr
  \/ ResolveIoRetry \/ ResolveIoExit
  \/ ReadOk \/ ReadEof
  \/ WriteAllOk \/ WriteAllRetry \/ WriteAllExit
  \/ FlushOk
  \/ RenameOk \/ RenamePanic \/ RenameRetry \/ RenameExit
  \/ CleanupOld
  \/ ReopenOk

Spec == Init /\ [][Next]_vars

(***************************************************************************)
(* Definitions used to state the properties.                               *)
(***************************************************************************)
\* the entries of a directory that the start-up scan takes for rotated files
LogFiles(dir, prefix) == {f \in DOMAIN dir : log_index(f, prefix) # None}

\* the rotated files whose name is the one filename gives for their index
NumberedFiles(dir, prefix) ==
  {f \in LogFiles(dir, prefix) : f = filename(prefix, Unwrap(log_index(f, prefix)))}

\* the contents of the rotated files, concatenated in ascending index order
RECURSIVE ConcatRotated(_, _, _)
ConcatRotated(dir, names, prefix) ==
  LET idx(f) == Unwrap(log_index(f, prefix))
      least == CHOOSE f \in names : \A g \in names : Leq(idx(f), idx(g))
  IN  IF names = {} THEN <<>>
      ELSE dir[least] \o ConcatRotated(dir, names \ {least}, prefix)

\* the content of `current` when the process started
OldCurrent == IF Current \in DOMAIN files0 THEN files0[Current] ELSE <<>>

\* the bytes of the last read
Chunk == SubSeq(buf, 1, sz)
HasNewline(s) == \E i \in 1..Len(s) : s[i] = NL

\* the process is between two rotations, in the main loop
InLoop == pc \in {"read", "write_first", "write_second", "write_rest"}

One == FromNat(1, U32Limbs)

(***************************************************************************)
(* C1.  No data is lost, duplicated or invented across rotations: starting *)
(* from an empty target directory, with a retention count that lets        *)
(* cleanup_old pop nothing, when the process exits with status 0 the       *)
(* rotated files in ascending index order followed by `current` hold       *)
(* exactly the bytes read from stdin.  Stated for the runs without any     *)
(* transient error, which the claim includes.                              *)
(***************************************************************************)
C1_RoundTrip ==
  (/\ exit_status = "exit(0)"
   /\ files0 = EmptyDir
   /\ Len(assigned) <= args.to_keep
   /\ retries = 0)
  => ConcatRotated(files, LogFiles(files, args.prefix), args.prefix)
       \o files[Current] = input

(***************************************************************************)
(* C2.  Retention ceiling: after every completed rotation, if no removal   *)
(* of an existing file failed, log_indices has at most to_keep elements,   *)
(* the directory holds at most to_keep files named {prefix}{n}.log, and    *)
(* they are the ones with the highest indices: every file cleanup_old      *)
(* removed has a lower index than every file that is kept.                 *)
(***************************************************************************)
C2_RetentionCeiling ==
  (InLoop /\ rotated # <<>> /\ ~remove_failed)
  => LET kept == NumberedFiles(files, args.prefix)
         idx(f) == Unwrap(log_index(f, args.prefix))
     IN  /\ Len(log_indices) <= args.to_keep
         /\ Cardinality(kept) <= args.to_keep
         /\ \A r \in removed : \A f \in kept : Lt(idx(r), idx(f))

(***************************************************************************)
(* C3.  Rotated-file numbering is strictly increasing over the lifetime of *)
(* a process: the index of each rotation is greater than the index of      *)
(* every earlier rotation, and the first index in an empty directory is 1. *)
(***************************************************************************)
C3_StrictlyIncreasing ==
  /\ \A i, j \in 1..Len(rotated) :
       i < j => Lt(rotated[i].index, rotated[j].index)
  /\ (files0 = EmptyDir /\ assigned # <<>>) => assigned[1] = One

(***************************************************************************)
(* C4.  A read whose bytes contain no newline never starts a rotation,     *)
(* whatever earlier reads left in the buffer; a read that reaches the      *)
(* threshold and contains a newline starts one, and the split is right     *)
(* after the first newline of the bytes just read.                         *)
(***************************************************************************)
C4_SplitOnlyAtNewlineOfChunk ==
  /\ pc = "write_first" =>
       /\ HasNewline(Chunk)
       /\ split = Unwrap(position(Chunk))
  /\ (pc = "write_rest" /\ file_size >= args.size_bytes) => ~HasNewline(Chunk)

(***************************************************************************)
(* C5.  Every numbered file produced by a threshold-triggered rotation     *)
(* ends with a newline: the content of `current` when it is renamed by a   *)
(* rotation of the main loop is not empty and its last byte is a newline.  *)
(***************************************************************************)
C5_RotatedEndsWithNewline ==
  \A i \in 1..Len(rotated) :
    ~rotated[i].on_start =>
      /\ rotated[i].content # <<>>
      /\ rotated[i].content[Len(rotated[i].content)] = NL

\* a rotation of the main loop has renamed a `current` that holds more than
\* the newline, after a write that was tried twice
C5_Witness ==
  /\ pc = "cleanup_old"
  /\ ret = "split"
  /\ retries > 0
  /\ Len(rotated[Len(rotated)].content) > 1

(***************************************************************************)
(* C6.  Rotate-on-start: a start-up rotation happens only when it is       *)
(* requested and `current` is not empty; then it is the one rotation       *)
(* before the first read, the numbered file receives the old content of    *)
(* `current` and file_size restarts at 0.  Otherwise nothing is rotated    *)
(* and no file is created, changed or removed before the first read.       *)
(***************************************************************************)
C6_RotateOnStart ==
  LET started == {i \in 1..Len(rotated) : rotated[i].on_start}
      wanted == args.rotate /\ OldCurrent # <<>>
  IN  /\ started \subseteq {1}
      /\ started # {} => wanted /\ rotated[1].content = OldCurrent
      /\ (ret = "start" /\ pc \in {"flush", "rename", "cleanup_old", "reopen"})
           => wanted /\ input = <<>>
      /\ (ret = "start" /\ pc = "cleanup_old")
           => files[filename(args.prefix, rotated[1].index)] = OldCurrent
      /\ (pc = "read" /\ input = <<>>) =>
           IF wanted
           THEN /\ Len(rotated) = 1
                /\ rotated[1].on_start
                /\ file_size = 0
                /\ files[Current] = <<>>
           ELSE /\ rotated = <<>>
                /\ removed = {} 
                /\ files = (Current :> OldCurrent) @@ files0
                /\ file_size = Len(OldCurrent)

\* the start-up rotation has run and the process is about to read
C6_Witness ==
  /\ pc = "read"
  /\ input = <<>>
  /\ args.rotate
  /\ Len(rotated) = 1
  /\ rotated[1].content = <<97>>

(***************************************************************************)
(* C8.  Every unrecoverable I/O error ends the process with exit status 1: *)
(* once an I/O step has failed with an error that is neither Interrupted   *)
(* nor WouldBlock, the process has exited with status 1.                   *)
(***************************************************************************)
C8_FatalErrorExitsWithOne ==
  io_fatal # "none" => exit_status = "exit(1)"

(***************************************************************************)
(* C9.  Termination: a process that has ended without a fatal I/O error    *)
(* has read a zero-length chunk and exited with status 0, and status 0 is  *)
(* only produced after a zero-length read.                                 *)
(***************************************************************************)
C9_EndsWithExitZero ==
  /\ (pc = "done" /\ io_fatal = "none") => (exit_status = "exit(0)" /\ eof)
  /\ exit_status = "exit(0)" => eof

(***************************************************************************)
(* ScanSpec: LogManager::new on the listings of at most MaxEntries names   *)
(* of ScanNames, for each prefix of ScanPrefixes.                          *)
(***************************************************************************)
ScanPrefixes == {PrefixA, <<"a">>}

ScanNames ==
  { Name(<<"1">>), Name(<<"2">>), Name(<<"0", "1">>), Name(<<"+", "1">>),
    Name(<<"x">>), Name(<<"4", "2", "9", "4", "9", "6", "7", "2", "9", "6">>),
    PrefixA \o <<"l", "o", "g">>,
    PrefixA \o <<"1", ".", "t", "x", "t">>,
    <<"a", "7", ".", "l", "o", "g">>,
    <<"b", ".", "l", "o", "g">>,
    Current }

ScanInit ==
  /\ pc = "LogManager::new"
  /\ exit_status = "running"
  /\ argv = <<>>
  /\ parsed = None
  /\ dir_created = FALSE
  /\ \E prefix \in ScanPrefixes : args = [NoArgs EXCEPT !.prefix = prefix]
  /\ \E names \in SUBSET ScanNames :
       /\ Cardinality(names) <= MaxEntries
       /\ files = [f \in names |-> <<>>]
  /\ files0 = files
  /\ log_indices = <<>>
  /\ file_size = 0
  /\ buf = [i \in 1..BufSize |-> 0]
  /\ sz = 0
  /\ split = 0
  /\ ret = "start"
  /\ input = <<>>
  /\ rotated = <<>>
  /\ assigned = <<>>
  /\ removed = {}
  /\ remove_failed = FALSE
  /\ retries = 0
  /\ io_fatal = "none"
  /\ eof = FALSE

ScanNext == LogManagerNewOk \/ LogManagerNewPanic \/ LogManagerNewErr

ScanSpec == ScanInit /\ [][ScanNext]_vars

\* the index a name spells: the name is the prefix, decimal digits, ".log"
SpelledIndex(f, prefix) ==
  LET mid == SubSeq(f, Len(prefix) + 1, Len(f) - Len(DotLog))
  IN  IF /\ Len(f) > Len(prefix) + Len(DotLog)
         /\ SubSeq(f, 1, Len(prefix)) = prefix
         /\ SubSeq(f, Len(f) - Len(DotLog) + 1, Len(f)) = DotLog
         /\ \A i \in 1..Len(mid) : IsDigit(mid[i])
      THEN ParseUnsigned(mid, U32Limbs)
      ELSE None

RECURSIVE SpelledIndices(_, _)
SpelledIndices(names, prefix) ==
  LET matching == {f \in names : SpelledIndex(f, prefix) # None}
      idx(f) == Unwrap(SpelledIndex(f, prefix))
      least == CHOOSE f \in matching : \A g \in matching : Leq(idx(f), idx(g))
  IN  IF matching = {} THEN <<>>
      ELSE <<idx(least)>> \o SpelledIndices(matching \ {least}, prefix)

(***************************************************************************)
(* C7.  Start-up scan: for every listing that can be read and every        *)
(* prefix, LogManager::new completes without crashing and log_indices is   *)
(* the ascending list of the numbers n for which an entry named            *)
(* prefix + decimal digits of n + ".log" exists; every other entry is      *)
(* ignored.                                                                *)
(***************************************************************************)
C7_ScanTakesExactlyTheNumberedFiles ==
  (pc # "LogManager::new" /\ io_fatal = "none")
  => /\ exit_status # "panic"
     /\ log_indices = SpelledIndices(DOMAIN files, args.prefix)

(***************************************************************************)
(* parse_args and main.                                                    *)
(***************************************************************************)
OptS == <<"-", "s">>
OptSize == <<"-", "-", "s", "i", "z", "e">>
OptK == <<"-", "k">>
OptKeep == <<"-", "-", "k", "e", "e", "p">>
OptP == <<"-", "p">>
OptPrefix == <<"-", "-", "p", "r", "e", "f", "i", "x">>
OptR == <<"-", "r">>
OptRotate ==
  <<"-", "-", "r", "o", "t", "a", "t", "e", "-", "o", "n", "-", "s", "t", "a", "r", "t">>

\* the result of parse_args: Ok(Args), Err(ArgError) or a panic
NoParsedArgs ==
  [dir |-> <<>>, size_bytes |-> Zero(U64Limbs), to_keep |-> Zero(U32Limbs),
   rotate |-> FALSE, prefix |-> <<>>]
Ok(a) == [tag |-> "Ok", error |-> "", arg |-> <<>>, args |-> a]
Err(e, arg) == [tag |-> "Err", error |-> e, arg |-> arg, args |-> NoParsedArgs]
Panicked == [tag |-> "panic", error |-> "", arg |-> <<>>, args |-> NoParsedArgs]

\* the locals of parse_args before the loop
ParseStart ==
  [dir |-> None, state |-> "None", size_bytes |-> FromNat(10 * 1024 * 1024, U64Limbs),
   to_keep |-> FromNat(5, U32Limbs), rotate |-> FALSE, prefix |-> None]

\* the code after the loop of parse_args; dir_ok is the outcome of create_dir_all
ParseEnd(a, dir_ok) ==
  IF a.state \in {"Size", "Keep"} THEN Err("MissingNumber", <<>>)
  ELSE IF a.state = "Prefix" THEN Err("MissingArgument", <<>>)
  ELSE IF a.dir = None THEN Err("MissingDir", <<>>)
  ELSE IF a.prefix = None THEN Err("MissingPrefix", <<>>)
  ELSE IF ~dir_ok THEN Err("UnableToFindOrCreateDir", Unwrap(a.dir))
  ELSE Ok([dir |-> Unwrap(a.dir), size_bytes |-> a.size_bytes, to_keep |-> a.to_keep,
           rotate |-> a.rotate, prefix |-> Unwrap(a.prefix)])

\* parse_args(args): list holds the arguments after the program name;
\* overflow_checks tells whether the build panics on the overflow of 1024 * size
\* (otherwise the product wraps)
RECURSIVE ParseLoop(_, _, _, _, _)
ParseLoop(list, i, a, overflow_checks, dir_ok) ==
  IF i > Len(list) THEN ParseEnd(a, dir_ok)
  ELSE
    LET arg == list[i]
        go(b) == ParseLoop(list, i + 1, b, overflow_checks, dir_ok)
    IN  CASE a.state = "Size" ->
               LET size == ParseUnsigned(arg, U64Limbs)
                   bytes == MulAdd(Unwrap(size), 1024, 0)
               IN  IF size = None THEN Err("ExpectedNumber", arg)
                   ELSE IF bytes.carry > 0 /\ overflow_checks THEN Panicked
                   ELSE go([a EXCEPT !.size_bytes = bytes.val, !.state = "None"])
          [] a.state = "Keep" ->
               LET keep == ParseUnsigned(arg, U32Limbs)
               IN  IF keep = None THEN Err("ExpectedNumber", arg)
                   ELSE go([a EXCEPT !.to_keep = Unwrap(keep), !.state = "None"])
          [] a.state = "Prefix" ->
               IF starts_with(arg, <<"-">>) THEN Err("ExpectedArgumentFoundFlag", arg)
               ELSE go([a EXCEPT !.prefix = Some(arg), !.state = "None"])
          [] OTHER ->
               IF arg \in {OptS, OptSize} THEN go([a EXCEPT !.state = "Size"])
               ELSE IF arg \in {OptK, OptKeep} THEN go([a EXCEPT !.state = "Keep"])
               ELSE IF arg \in {OptP, OptPrefix} THEN go([a EXCEPT !.state = "Prefix"])
               ELSE IF arg \in {OptR, OptRotate} THEN go([a EXCEPT !.rotate = TRUE])
               ELSE IF starts_with(arg, <<"-">>) THEN Err("UnknownArgument", arg)
               ELSE IF a.dir # None THEN Err("UnexpectedPositionalArg", arg)
               ELSE go([a EXCEPT !.dir = Some(arg)])

parse_args(list, overflow_checks, dir_ok) ==
  ParseLoop(list, 1, ParseStart, overflow_checks, dir_ok)

\* main: parse_args(std::env::args()) under one build and one outcome of
\* create_dir_all; Ok(args) calls run, an error prints the message and the
\* usage and main returns, a panic ends the process
Main ==
  /\ pc = "parse_args"
  /\ \E overflow_checks \in BOOLEAN, dir_ok \in BOOLEAN :
       \E result \in {parse_args(argv, overflow_checks, dir_ok)} :
         /\ parsed' = Some(result)
         /\ dir_created' = (dir_ok /\ result.tag = "Ok")
         /\ CASE result.tag = "Ok" ->
                   pc' = "run" /\ UNCHANGED exit_status
              [] result.tag = "Err" ->
                   pc' = "done" /\ exit_status' = "exit(0)"
              [] OTHER ->
                   pc' = "done" /\ exit_status' = "panic"
  /\ UNCHANGED <<argv, args, files, files0, log_indices, file_size, buf, sz, split,
                 ret, hist, retries, io_fatal>>

(***************************************************************************)
(* ArgsSpec: main on the command lines of at most MaxArgGroups groups,     *)
(* where a group is an option with its value, a flag or the directory.     *)
(***************************************************************************)
MaxArgGroups == 4

DirArg == <<"d">>
PrefixArg == <<"p">>
\* 2^54, the smallest size whose product with 1024 does not fit a u64
HugeSize ==
  <<"1", "8", "0", "1", "4", "3", "9", "8", "5", "0", "9", "4", "8", "1", "9", "8", "4">>
SizeArgs == {<<"2">>, HugeSize}
KeepArgs == {<<"0">>, <<"6">>}

ArgGroups ==
  {<<o, v>> : o \in {OptS, OptSize}, v \in SizeArgs}
    \cup {<<o, v>> : o \in {OptK, OptKeep}, v \in KeepArgs}
    \cup {<<o, PrefixArg>> : o \in {OptP, OptPrefix}}
    \cup {<<OptR>>, <<OptRotate>>, <<DirArg>>}

RECURSIVE ArgLists(_)
ArgLists(n) ==
  IF n = 0 THEN {<<>>}
  ELSE LET shorter == ArgLists(n - 1)
       IN  shorter \cup {l \o g : l \in shorter, g \in ArgGroups}

ArgsInit ==
  /\ pc = "parse_args"
  /\ exit_status = "running"
  /\ argv \in ArgLists(MaxArgGroups)
  /\ parsed = None
  /\ dir_created = FALSE
  /\ args = NoArgs
  /\ files = EmptyDir
  /\ files0 = files
  /\ log_indices = <<>>
  /\ file_size = 0
  /\ buf = [i \in 1..BufSize |-> 0]
  /\ sz = 0
  /\ split = 0
  /\ ret = "start"
  /\ input = <<>>
  /\ rotated = <<>>
  /\ assigned = <<>>
  /\ removed = {}
  /\ remove_failed = FALSE
  /\ retries = 0
  /\ io_fatal = "none"
  /\ eof = FALSE

ArgsNext == Main

ArgsSpec == ArgsInit /\ [][ArgsNext]_vars

\* the positions of an option in argv, and the value after its last occurrence
At(opts) == {i \in 1..Len(argv) : argv[i] \in opts}
LastValue(opts) == argv[(CHOOSE i \in At(opts) : \A j \in At(opts) : j <= i) + 1]

\* 1024 * N without a width: the limbs of the product, with one more limb
Times1024(n) == MulAdd(Append(n, 0), 1024, 0).val

(***************************************************************************)
(* C10.  parse_args accepts the options in any order, in short or long     *)
(* form: for an argument list with one directory, a prefix and optional    *)
(* size N, keep K and rotate-on-start, it returns Args{dir, size_bytes =   *)
(* 1024 * N, to_keep = K, rotate, prefix}, with the defaults 10 * 1024 *   *)
(* 1024, 5 and false, a repeated option taking its last value.  Stated     *)
(* for the runs in which the directory exists or can be created.           *)
(***************************************************************************)
C10_ParseArgsReturnsArgs ==
  (/\ pc # "parse_args"
   /\ Cardinality(At({DirArg})) = 1
   /\ At({OptP, OptPrefix}) # {}
   /\ Unwrap(parsed).error # "UnableToFindOrCreateDir")
  => LET result == Unwrap(parsed)
         N == Unwrap(ParseUnsigned(LastValue({OptS, OptSize}), U64Limbs))
         K == Unwrap(ParseUnsigned(LastValue({OptK, OptKeep}), U32Limbs))
     IN  /\ result.tag = "Ok"
         /\ result.args.dir = DirArg
         /\ result.args.prefix = PrefixArg
         /\ result.args.rotate = (At({OptR, OptRotate}) # {})
         /\ result.args.to_keep =
              IF At({OptK, OptKeep}) = {} THEN FromNat(5, U32Limbs) ELSE K
         /\ Append(result.args.size_bytes, 0) =
              IF At({OptS, OptSize}) = {}
              THEN FromNat(10 * 1024 * 1024, U64Limbs + 1)
              ELSE Times1024(N)

(***************************************************************************)
(* ArgErrSpec: main on the command lines of at most MaxArgTokens tokens of *)
(* ArgTokens, so that a value can be missing, of the wrong kind or in the  *)
(* wrong place.                                                            *)
(***************************************************************************)
MaxArgTokens == 4

NotANumber == <<"x">>
UnknownFlag == <<"-", "u">>
ArgTokens ==
  {OptS, OptKeep, OptP, OptR, DirArg, <<"2">>, NotANumber, UnknownFlag, HugeSize}

RECURSIVE TokenLists(_)
TokenLists(n) ==
  IF n = 0 THEN {<<>>}
  ELSE LET shorter == TokenLists(n - 1)
       IN  shorter \cup {Append(l, t) : l \in shorter, t \in ArgTokens}

ArgErrInit ==
  /\ pc = "parse_args"
  /\ exit_status = "running"
  /\ argv \in TokenLists(MaxArgTokens)
  /\ parsed = None
  /\ dir_created = FALSE
  /\ args = NoArgs
  /\ files = EmptyDir
  /\ files0 = files
  /\ log_indices = <<>>
  /\ file_size = 0
  /\ buf = [i \in 1..BufSize |-> 0]
  /\ sz = 0
  /\ split = 0
  /\ ret = "start"
  /\ input = <<>>
  /\ rotated = <<>>
  /\ assigned = <<>>
  /\ removed = {}
  /\ remove_failed = FALSE
  /\ retries = 0
  /\ io_fatal = "none"
  /\ eof = FALSE

ArgErrNext == Main

ArgErrSpec == ArgErrInit /\ [][ArgErrNext]_vars

\* what the argument at position i of argv is read as when every argument
\* before it is well-formed: "Size", "Keep" or "Prefix" for the value of the
\* option right before it, "None" for an option, a flag or a positional
RECURSIVE Expects(_)
Expects(i) ==
  IF i = 1 \/ Expects(i - 1) # "None" THEN "None"
  ELSE IF argv[i - 1] \in {OptS, OptSize} THEN "Size"
  ELSE IF argv[i - 1] \in {OptK, OptKeep} THEN "Keep"
  ELSE IF argv[i - 1] \in {OptP, OptPrefix} THEN "Prefix"
  ELSE "None"

IsFlag(arg) == arg # <<>> /\ arg[1] = "-"
IsNumber(arg) == arg # <<>> /\ \A j \in 1..Len(arg) : IsDigit(arg[j])
KnownOptions == {OptS, OptSize, OptK, OptKeep, OptP, OptPrefix, OptR, OptRotate}
Positionals(i) == {j \in 1..i : Expects(j) = "None" /\ ~IsFlag(argv[j])}

\* the error the argument at position i is malformed with, or "" when it is
\* well-formed
Malformed(i) ==
  IF Expects(i) \in {"Size", "Keep"}
  THEN IF IsNumber(argv[i]) THEN "" ELSE "ExpectedNumber"
  ELSE IF Expects(i) = "Prefix"
  THEN IF IsFlag(argv[i]) THEN "ExpectedArgumentFoundFlag" ELSE ""
  ELSE IF IsFlag(argv[i])
  THEN IF argv[i] \in KnownOptions THEN "" ELSE "UnknownArgument"
  ELSE IF Positionals(i - 1) # {} THEN "UnexpectedPositionalArg" ELSE ""

\* the error of a command line whose arguments are all well-formed, or ""
Incomplete ==
  LET last == Expects(Len(argv) + 1)
  IN  IF last \in {"Size", "Keep"} THEN "MissingNumber"
      ELSE IF last = "Prefix" THEN "MissingArgument"
      ELSE IF Positionals(Len(argv)) = {} THEN "MissingDir"
      ELSE IF \A j \in 1..Len(argv) : Expects(j) # "Prefix" THEN "MissingPrefix"
      ELSE ""

(***************************************************************************)
(* C11.  parse_args reports the first malformed argument in left-to-right  *)
(* order, with the argument: ExpectedNumber for a value after -s / -k that *)
(* is not a number, ExpectedArgumentFoundFlag for a value after -p that    *)
(* starts with '-', UnknownArgument for an unknown '-' argument,           *)
(* UnexpectedPositionalArg for a second positional.  When every argument   *)
(* is well-formed, a list ending in -s or -k gives MissingNumber, one      *)
(* ending in -p MissingArgument, then a missing directory MissingDir, then *)
(* a missing prefix MissingPrefix.  In all these cases no directory is     *)
(* created and run is not called.                                          *)
(***************************************************************************)
C11_ReportsFirstMalformedArgument ==
  LET bad == {i \in 1..Len(argv) : Malformed(i) # ""}
      m == CHOOSE i \in bad : \A j \in bad : i <= j
      result == Unwrap(parsed)
  IN  (pc # "parse_args" /\ (bad # {} \/ Incomplete # ""))
      => /\ result.tag = "Err"
         /\ IF bad # {}
            THEN result.error = Malformed(m) /\ result.arg = argv[m]
            ELSE result.error = Incomplete
         /\ ~dir_created
         /\ pc # "run"

(***************************************************************************)
(* Definitions used to state the properties of the LogManager.             *)
(***************************************************************************)
\* the indices the start-up scan found, and the largest of them
ScannedIndices == SortedIndices(DOMAIN files0, args.prefix)
Elements(s) == {s[i] : i \in 1..Len(s)}
MaxScanned == ScannedIndices[Len(ScannedIndices)]

\* the rotation of the main loop or of the start-up is over
AfterRotation == rotated # <<>> /\ pc \in {"cleanup_old", "reopen", "read",
                                            "write_first", "write_second",
                                            "write_rest"}

(***************************************************************************)
(* C12.  In every reachable state of the LogManager, after the start-up    *)
(* scan of any directory and after any sequence of next_index and          *)
(* cleanup_old calls, log_indices is sorted ascending and has no           *)
(* duplicates, also when the directory holds two spellings of one number.  *)
(***************************************************************************)
C12_SortedWithoutDuplicates ==
  \A i, j \in 1..Len(log_indices) :
    i < j => Lt(log_indices[i], log_indices[j])

(***************************************************************************)
(* C13.  Each rotation appends exactly one index to log_indices, the one   *)
(* that names the file `current` was renamed to, also when the rename is   *)
(* retried: after a rotation as many indices have been handed out as       *)
(* files were renamed, and every tracked index is one the start-up scan    *)
(* found or one a file was renamed to.                                     *)
(***************************************************************************)
C13_OneIndexPerRotation ==
  AfterRotation
  => /\ Len(assigned) = Len(rotated)
     /\ \A i \in 1..Len(log_indices) :
          \/ log_indices[i] \in Elements(ScannedIndices)
          \/ \E r \in 1..Len(rotated) : rotated[r].index = log_indices[i]

(***************************************************************************)
(* C15.  Numbering continues across a restart and gaps are never refilled: *)
(* when the directory holds rotated files at start-up, the first rotation  *)
(* of the process is assigned the largest index found plus one, and no     *)
(* index below the largest that no file had is ever assigned.              *)
(***************************************************************************)
C15_NumberingContinues ==
  ScannedIndices # <<>>
  => /\ rotated # <<>> =>
          /\ rotated[1].index = MulAdd(MaxScanned, 1, 1).val
          /\ Lt(MaxScanned, rotated[1].index)
     /\ exit_status = "panic" => ~next_index(log_indices).overflow
     /\ \A i \in 1..Len(assigned) :
          Lt(assigned[i], MaxScanned) => assigned[i] \in Elements(ScannedIndices)

(***************************************************************************)
(* C16.  next_index returns exactly one more than the largest tracked      *)
(* index for every u32 maximum, 2^32 - 1 included: the index it returns    *)
(* and pushes is greater than the back it found, it never wraps around and *)
(* the call completes.                                                     *)
(***************************************************************************)
C16_NextIndexNeverWraps ==
  /\ (pc = "cleanup_old" /\ Len(log_indices) >= 2) =>
       LET back == log_indices[Len(log_indices) - 1]
           new == log_indices[Len(log_indices)]
       IN  Lt(back, new) /\ Append(new, 0) = MulAdd(Append(back, 0), 1, 1).val
  /\ (pc = "cleanup_old" /\ Len(log_indices) = 1) => log_indices[1] = One
  /\ (exit_status = "panic" /\ log_indices # <<>>) => ~next_index(log_indices).overflow

(***************************************************************************)
(* C18.  A retry after a transient error is transparent to the data: when  *)
(* a write_all to `current` fails with Interrupted or WouldBlock after a   *)
(* part of the bytes went out and resolve_io runs it again, `current`      *)
(* holds what it would hold without the error.  Stated before the first    *)
(* rotation, where `current` is to hold its old content followed by the    *)
(* bytes read.                                                             *)
(***************************************************************************)
C18_RetryIsTransparent ==
  (pc = "read" /\ rotated = <<>>) => files[Current] = OldCurrent \o input

(***************************************************************************)
(* C20.  A rotation never renames `current` over an existing file: when    *)
(* `current` is renamed to {prefix}{n}.log no file of that name is in the  *)
(* directory, for every to_keep (0 included) and also after removals of    *)
(* cleanup_old that failed.                                                *)
(***************************************************************************)
C20_NeverRenamesOverAFile ==
  \A i \in 1..Len(rotated) : ~rotated[i].replaced

(***************************************************************************)
(* C14.  A removal that fails during cleanup_old is never fatal: the step  *)
(* still pops every excess index from the front of log_indices, the index  *)
(* of the file that could not be removed included, removes no other file,  *)
(* and the process goes on to reopen `current`; it does not exit.          *)
(***************************************************************************)
C14_FailedRemovalIsNotFatal ==
  [][pc = "cleanup_old" =>
       LET k == Excess(log_indices, args.to_keep)
       IN  /\ pc' = "reopen"
           /\ exit_status' = "running"
           /\ io_fatal' = "none"
           /\ log_indices' = SubSeq(log_indices, k + 1, Len(log_indices))
           /\ Len(log_indices') <= args.to_keep
           /\ \A f \in DOMAIN files \ DOMAIN files' :
                \E j \in 1..k : f = filename(args.prefix, log_indices[j])]_vars

\* after a removal failed the process has read more input; the file that could
\* not be removed is in the directory and its index is not tracked any more
C14_Witness ==
  /\ remove_failed
  /\ pc = "write_rest"
  /\ \E f \in LogFiles(files, args.prefix) \cap DOMAIN files0 :
       Unwrap(log_index(f, args.prefix)) \notin Elements(log_indices)

(***************************************************************************)
(* C17.  Start-up without rotation leaves the existing log data untouched: *)
(* when `current` exists and no start-up rotation is performed, until the  *)
(* first rotation its old bytes stay an unchanged prefix of `current`, the *)
(* bytes read are appended after them, file_size starts at the old length  *)
(* and counts everything `current` holds, and no numbered file is created, *)
(* renamed or removed.  The equalities are stated for the runs without a   *)
(* transient error.                                                        *)
(***************************************************************************)
C17_StartupKeepsCurrent ==
  (/\ Current \in DOMAIN files0
   /\ ~(args.rotate /\ OldCurrent # <<>>)
   /\ rotated = <<>>)
  => /\ Len(files[Current]) >= Len(OldCurrent)
     /\ SubSeq(files[Current], 1, Len(OldCurrent)) = OldCurrent
     /\ (pc = "read" /\ retries = 0) =>
          /\ files[Current] = OldCurrent \o input
          /\ file_size = Len(OldCurrent) + Len(input)
     /\ DOMAIN files = DOMAIN files0
     /\ \A f \in DOMAIN files \ {Current} : files[f] = files0[f]
     /\ removed = {}

\* input has been appended to a `current` that was not empty, and the old
\* length has made file_size reach the threshold
C17_Witness ==
  /\ pc = "read"
  /\ OldCurrent # <<>>
  /\ input # <<>>
  /\ rotated = <<>>
  /\ ~args.rotate
  /\ Len(input) < args.size_bytes
  /\ file_size >= args.size_bytes

(***************************************************************************)
(* C19.  Counter consistency: without transient errors, at the start of    *)
(* every iteration of the main loop file_size is the length of `current`   *)
(* on disk: the old length at start-up, 0 after a start-up rotation, the   *)
(* number of bytes written to the fresh file after a split.                *)
(***************************************************************************)
C19_CounterIsLengthOfCurrent ==
  (pc = "read" /\ retries = 0) => file_size = Len(files[Current])

\* the loop is back at the read after a split that wrote bytes to the fresh
\* `current`
C19_Witness ==
  /\ pc = "read"
  /\ retries = 0
  /\ rotated # <<>>
  /\ ~rotated[Len(rotated)].on_start
  /\ file_size > 0
  /\ Len(files[Current]) > 0

=============================================================================
